---- MODULE Spec2Model ----
(***************************************************************************)
(* The Index page of CodeBoost-AI (src/unnamed/part_000, lines 170-607):   *)
(* the editor state, the handlers of its buttons, and the two asynchronous *)
(* handlers handleAnalyze and handleFix with their requests in flight.     *)
(*                                                                         *)
(* Source text is modelled as TLA+ strings; trim, toLowerCase and includes *)
(* are computed character by character.  A handler that awaits is split at *)
(* its await: the part before it is one action, the continuation another.  *)
(* A continuation reads the values its closure captured when the handler   *)
(* was invoked (the request record keeps them), and the state setters act  *)
(* on the current state.  A user event always sees the current render.     *)
(***************************************************************************)
EXTENDS Integers, Sequences, FiniteSets, TLC

VARIABLES
  code,            \* useState(defaultCode)                       line 218
  language,        \* useState("auto")                            line 219
  isAnalyzing,     \* useState(false)                             line 220
  isFixing,        \* useState(false)                             line 221
  analysisResult,  \* useState<AnalyzeResponse | null>(null)      line 222
  history,         \* useState<HistoryItem[]>([])                 line 224
  fixTimeoutRef,   \* useRef(null): "null", or the handle of a timer
                   \* "pending" or "spent" (fired or cleared)    line 225
  analyzeCalls,    \* handleAnalyze invocations awaiting /api/analyze
  fixCalls,        \* handleFix invocations awaiting /api/fix
  nextId,          \* number of requests sent so far, plus one
  toast            \* the last notice shown by sonner's toast

vars == <<code, language, isAnalyzing, isFixing, analysisResult, history,
          fixTimeoutRef, analyzeCalls, fixCalls, nextId, toast>>

-----------------------------------------------------------------------------
(* Bounds of the model *)

\* Requests (/api/analyze and /api/fix together) sent in one behaviour.
MaxCalls == 3

-----------------------------------------------------------------------------
(* Program constants *)

HistoryCap == 10

defaultCode == "// Paste your code here and it will auto-detect the language!\n// Examples:\n// JavaScript: function hello() { console.log(\"world\"); }\n// Python: def hello(): print(\"world\")\n// Java: public class Hello { public static void main(String[] args) { System.out.println(\"world\"); } }\n// C++: #include <iostream> using namespace std; int main() { cout << \"world\"; return 0; }\n// C: #include <stdio.h> int main() { printf(\"world\"); return 0; }\n// TypeScript: interface User { name: string; }"

JavaScriptExample == "function hello() { console.log(\"world\"); }"
PythonExample == "def hello(): print(\"world\")"
JavaExample == "public class Hello { public static void main(String[] args) { System.out.println(\"world\"); } }"
CppExample == "#include <iostream> using namespace std; int main() { cout << \"world\"; return 0; }"
CExample == "#include <stdio.h> int main() { printf(\"world\"); return 0; }"
TypeScriptExample == "interface User { name: string; }"

Languages == {"auto", "javascript", "python", "java", "cpp", "c", "typescript"}

-----------------------------------------------------------------------------
(* Inputs *)

\* Texts the user types or pastes while requests are in flight: whitespace
\* only, padded text no rule detects, and Python with a trailing newline.
EditCodes == {"  \n", " x = 1 ", "def f(): pass\n"}

\* Texts the user pastes into the editor on its own: the six examples and one
\* text for every other rule of the detection, besides the texts above.
DetectCodes ==
  EditCodes \cup
  { JavaScriptExample, PythonExample, JavaExample, CppExample, CExample,
    TypeScriptExample, "",
    "import os", "import java.util.List;", "std::cout << 1;",
    "#include <stdlib.h>", "#include <string.h>", "type T = number",
    "let xs: Array<number>", "let n: string", "x => x", "const x = 1",
    "console.log(1)", "print(1)", "System.out.println(1);" }

\* fixedCode values /api/fix answers with: empty, and text with a trailing
\* newline.
FixedCodes == {"", "x = 2\n"}

\* Languages the user selects while requests are in flight.
SelectLanguages == {"auto", "java"}

\* data.language values /api/analyze answers with.
ResponseLanguages == {"auto", "python"}

-----------------------------------------------------------------------------
(* String.prototype.trim, toLowerCase, includes *)

WhiteSpace == {" ", "\n", "\t", "\r"}

CharAt(s, i) == SubSeq(s, i, i)

\* The index of the first character at or after i that is no white space.
RECURSIVE TrimStartIndex(_, _)
TrimStartIndex(s, i) ==
  IF i <= Len(s) /\ CharAt(s, i) \in WhiteSpace
    THEN TrimStartIndex(s, i + 1) ELSE i

\* The index of the last character at or before i that is no white space.
RECURSIVE TrimEndIndex(_, _)
TrimEndIndex(s, i) ==
  IF i >= 1 /\ CharAt(s, i) \in WhiteSpace
    THEN TrimEndIndex(s, i - 1) ELSE i

Trim(s) == SubSeq(s, TrimStartIndex(s, 1), TrimEndIndex(s, Len(s)))

LowerOf ==
  ( "A" :> "a" ) @@ ( "B" :> "b" ) @@ ( "C" :> "c" ) @@ ( "D" :> "d" ) @@
  ( "E" :> "e" ) @@ ( "F" :> "f" ) @@ ( "G" :> "g" ) @@ ( "H" :> "h" ) @@
  ( "I" :> "i" ) @@ ( "J" :> "j" ) @@ ( "K" :> "k" ) @@ ( "L" :> "l" ) @@
  ( "M" :> "m" ) @@ ( "N" :> "n" ) @@ ( "O" :> "o" ) @@ ( "P" :> "p" ) @@
  ( "Q" :> "q" ) @@ ( "R" :> "r" ) @@ ( "S" :> "s" ) @@ ( "T" :> "t" ) @@
  ( "U" :> "u" ) @@ ( "V" :> "v" ) @@ ( "W" :> "w" ) @@ ( "X" :> "x" ) @@
  ( "Y" :> "y" ) @@ ( "Z" :> "z" )

\* Every character lowered, the text split in halves down to one character.
RECURSIVE ToLowerCase(_)
ToLowerCase(s) ==
  IF Len(s) = 0 THEN ""
  ELSE IF Len(s) = 1 THEN (IF s \in DOMAIN LowerOf THEN LowerOf[s] ELSE s)
  ELSE ToLowerCase(SubSeq(s, 1, Len(s) \div 2))
         \o ToLowerCase(SubSeq(s, Len(s) \div 2 + 1, Len(s)))

Includes(s, p) ==
  \E i \in 1..(Len(s) - Len(p) + 1) : SubSeq(s, i, i + Len(p) - 1) = p

-----------------------------------------------------------------------------
(* Values *)

\* analysisResult before any analysis and after a reset.
Null == [null |-> TRUE]

Notice(kind, text) == [kind |-> kind, text |-> text]

\* The body of an /api/analyze response: its language; seq stands for the
\* rest of the payload (score, issues, metrics, analyzedAt), which differs
\* from one response to the next.
Data(call, lang) == [language |-> lang, seq |-> call.id]

\* { id: crypto.randomUUID(), ...data }
HistoryItem(call, lang) ==
  [id |-> call.id, language |-> lang, seq |-> call.id]

Take(s, n) == SubSeq(s, 1, IF Len(s) < n THEN Len(s) ELSE n)

\* The bound on the requests of one behaviour: one more may be sent.
CanSend == nextId <= MaxCalls

-----------------------------------------------------------------------------
(* The render *)

\* The AI Debug button's disabled attribute.
FixButtonDisabled == isFixing \/ isAnalyzing

\* The Analyze Code button's disabled attribute.
AnalyzeButtonDisabled == isAnalyzing

\* What the right column shows.
ResultsColumn ==
  IF isAnalyzing THEN "analyzing"
  ELSE IF analysisResult # Null THEN "results"
  ELSE "ready"

-----------------------------------------------------------------------------
(* handleCodeChange *)

Capitalize(s) ==
  LET c == CharAt(s, 1)
      up == {u \in DOMAIN LowerOf : LowerOf[u] = c}
  IN (IF up = {} THEN c ELSE CHOOSE u \in up : TRUE) \o SubSeq(s, 2, Len(s))

\* print( loosened to print
DetectLanguage_LoosePrint(newCode) ==
  LET c == ToLowerCase(Trim(newCode))
  IN IF Includes(c, "def ") \/ Includes(c, "import ") \/ Includes(c, "print")
       THEN "python"
     ELSE IF Includes(c, "public class") \/ Includes(c, "system.out.println")
             \/ Includes(c, "import java.")
       THEN "java"
     ELSE IF Includes(c, "using namespace") \/ Includes(c, "std::")
             \/ (Includes(c, "#include") /\ Includes(c, "iostream"))
       THEN "cpp"
     ELSE IF Includes(c, "#include")
             /\ (Includes(c, "stdio.h") \/ Includes(c, "stdlib.h")
                 \/ Includes(c, "string.h"))
       THEN "c"
     ELSE IF Includes(c, "interface ") \/ Includes(c, "type ")
             \/ Includes(c, ": string") \/ Includes(c, "array<")
       THEN "typescript"
     ELSE IF Includes(c, "function ") \/ Includes(c, "=>")
             \/ Includes(c, "console.log") \/ Includes(c, "const ")
       THEN "javascript"
     ELSE ""

\* The detection of handleCodeChange: "" when no rule matches.
DetectLanguage(newCode) ==
  LET c == ToLowerCase(Trim(newCode))
  IN IF Includes(c, "def ") \/ Includes(c, "import ") \/ Includes(c, "print(")
       THEN "python"
     ELSE IF Includes(c, "public class") \/ Includes(c, "system.out.println")
             \/ Includes(c, "import java.")
       THEN "java"
     ELSE IF Includes(c, "using namespace") \/ Includes(c, "std::")
             \/ (Includes(c, "#include") /\ Includes(c, "iostream"))
       THEN "cpp"
     ELSE IF Includes(c, "#include")
             /\ (Includes(c, "stdio.h") \/ Includes(c, "stdlib.h")
                 \/ Includes(c, "string.h"))
       THEN "c"
     ELSE IF Includes(c, "interface ") \/ Includes(c, "type ")
             \/ Includes(c, ": string") \/ Includes(c, "array<")
       THEN "typescript"
     ELSE IF Includes(c, "function ") \/ Includes(c, "=>")
             \/ Includes(c, "console.log") \/ Includes(c, "const ")
       THEN "javascript"
     ELSE ""

\* The guard language === "auto" dropped
HandleCodeChange_AnyLanguage(newCode) ==
  /\ newCode # code
  /\ code' = newCode
  /\ IF Trim(newCode) # "" /\ DetectLanguage(newCode) \notin {"", language}
       THEN /\ language' = DetectLanguage(newCode)
            /\ toast' = Notice("info", "Auto-detected: "
                                 \o Capitalize(DetectLanguage(newCode)))
       ELSE UNCHANGED <<language, toast>>
  /\ UNCHANGED <<isAnalyzing, isFixing, analysisResult, history,
                 fixTimeoutRef, analyzeCalls, fixCalls, nextId>>

\* The editor's onChange: the text changed to newCode.
HandleCodeChange(newCode) ==
  /\ newCode # code
  /\ code' = newCode
  /\ IF language = "auto" /\ Trim(newCode) # ""
        /\ DetectLanguage(newCode) \notin {"", language}
       THEN /\ language' = DetectLanguage(newCode)
            /\ toast' = Notice("info", "Auto-detected: "
                                 \o Capitalize(DetectLanguage(newCode)))
       ELSE UNCHANGED <<language, toast>>
  /\ UNCHANGED <<isAnalyzing, isFixing, analysisResult, history,
                 fixTimeoutRef, analyzeCalls, fixCalls, nextId>>

\* The language Select's onValueChange.
SetLanguage(l) ==
  /\ l # language
  /\ language' = l
  /\ UNCHANGED <<code, isAnalyzing, isFixing, analysisResult, history,
                 fixTimeoutRef, analyzeCalls, fixCalls, nextId, toast>>

\* handleReset
HandleReset ==
  /\ code' = defaultCode
  /\ analysisResult' = Null
  /\ toast' = Notice("info", "Code reset to default")
  /\ UNCHANGED <<language, isAnalyzing, isFixing, history, fixTimeoutRef,
                 analyzeCalls, fixCalls, nextId>>

\* The Load button of a history row, shown with the results.
LoadHistory(i) ==
  /\ ResultsColumn = "results"
  /\ i \in 1..Len(history)
  /\ analysisResult' = history[i]
  /\ UNCHANGED <<code, language, isAnalyzing, isFixing, history,
                 fixTimeoutRef, analyzeCalls, fixCalls, nextId, toast>>

-----------------------------------------------------------------------------
(* handleAnalyze *)

\* The emptiness check made on the untrimmed source
AnalyzeBegin_NoTrim(source, lang, fromFix) ==
  IF source = ""
    THEN /\ toast' = Notice("error",
                       "Please paste or type some code before analyzing.")
         /\ UNCHANGED <<isAnalyzing, analyzeCalls, nextId>>
    ELSE /\ isAnalyzing' = TRUE
         /\ toast' = Notice("info", "Analyzing your code...")
         /\ analyzeCalls' = analyzeCalls \cup
              {[id |-> nextId, code |-> Trim(source), language |-> lang,
                fromFix |-> fromFix]}
         /\ nextId' = nextId + 1

\* handleAnalyze up to its await fetch: source is overrideCode ?? code, lang
\* the language of the render the caller belongs to, fromFix whether
\* handleFix awaits this invocation.
AnalyzeBegin(source, lang, fromFix) ==
  IF Trim(source) = ""
    THEN /\ toast' = Notice("error",
                       "Please paste or type some code before analyzing.")
         /\ UNCHANGED <<isAnalyzing, analyzeCalls, nextId>>
    ELSE /\ isAnalyzing' = TRUE
         /\ toast' = Notice("info", "Analyzing your code...")
         /\ analyzeCalls' = analyzeCalls \cup
              {[id |-> nextId, code |-> Trim(source), language |-> lang,
                fromFix |-> fromFix]}
         /\ nextId' = nextId + 1

\* A click on Analyze Code: handleAnalyze().
HandleAnalyze ==
  /\ ~AnalyzeButtonDisabled
  /\ Trim(code) # "" => CanSend
  /\ AnalyzeBegin(code, language, FALSE)
  /\ UNCHANGED <<code, language, isFixing, analysisResult, history,
                 fixTimeoutRef, fixCalls>>

\* The finally block of handleFix.
FixFinally ==
  /\ isFixing' = FALSE
  /\ fixTimeoutRef' = "pending"

\* handleAnalyze after its await: /api/analyze answers the request, res.ok
\* with data.language = lang or not; when handleFix awaits the invocation,
\* handleFix's finally block follows.
AnalyzeContinue(call, ok, lang) ==
  /\ call \in analyzeCalls
  /\ analyzeCalls' = analyzeCalls \ {call}
  /\ IF ok
       THEN /\ analysisResult' = Data(call, lang)
            /\ language' = IF call.language = "auto" /\ lang # "auto"
                             THEN lang ELSE language
            /\ history' = Take(<<HistoryItem(call, lang)>> \o history,
                               HistoryCap)
            /\ toast' = Notice("success", "Analysis complete!")
       ELSE /\ toast' = Notice("error", "Failed to analyze code")
            /\ UNCHANGED <<analysisResult, language, history>>
  /\ isAnalyzing' = FALSE
  /\ IF call.fromFix THEN FixFinally ELSE UNCHANGED <<isFixing, fixTimeoutRef>>
  /\ UNCHANGED <<code, fixCalls, nextId>>

-----------------------------------------------------------------------------
(* handleFix *)

\* setIsFixing(true) left out
HandleFix_NoFlag ==
  /\ ~FixButtonDisabled
  /\ IF isFixing
       THEN /\ toast' = Notice("info", "Fix already in progress...")
            /\ UNCHANGED <<isFixing, fixTimeoutRef, fixCalls, nextId>>
     ELSE IF Trim(code) = ""
       THEN /\ toast' = Notice("error", "Add some code first.")
            /\ UNCHANGED <<isFixing, fixTimeoutRef, fixCalls, nextId>>
     ELSE /\ CanSend
          /\ fixTimeoutRef' = IF fixTimeoutRef = "pending" THEN "spent"
                              ELSE fixTimeoutRef
          /\ UNCHANGED isFixing
          /\ toast' = Notice("info", "Applying AI fixes...")
          /\ fixCalls' = fixCalls \cup
               {[id |-> nextId, code |-> Trim(code), language |-> language,
                 fromFix |-> FALSE]}
          /\ nextId' = nextId + 1
  /\ UNCHANGED <<code, language, isAnalyzing, analysisResult, history,
                 analyzeCalls>>

\* A click on AI Debug: handleFix up to its await fetch.
HandleFix ==
  /\ ~FixButtonDisabled
  /\ IF isFixing
       THEN /\ toast' = Notice("info", "Fix already in progress...")
            /\ UNCHANGED <<isFixing, fixTimeoutRef, fixCalls, nextId>>
     ELSE IF Trim(code) = ""
       THEN /\ toast' = Notice("error", "Add some code first.")
            /\ UNCHANGED <<isFixing, fixTimeoutRef, fixCalls, nextId>>
     ELSE /\ CanSend
          /\ fixTimeoutRef' = IF fixTimeoutRef = "pending" THEN "spent"
                              ELSE fixTimeoutRef
          /\ isFixing' = TRUE
          /\ toast' = Notice("info", "Applying AI fixes...")
          /\ fixCalls' = fixCalls \cup
               {[id |-> nextId, code |-> Trim(code), language |-> language,
                 fromFix |-> FALSE]}
          /\ nextId' = nextId + 1
  /\ UNCHANGED <<code, language, isAnalyzing, analysisResult, history,
                 analyzeCalls>>

\* isFixing reset as soon as the fix is applied, before the analysis ends
FixContinue_EarlyFinally(call, ok, fixedCode) ==
  /\ call \in fixCalls
  /\ fixCalls' = fixCalls \ {call}
  /\ IF ok
       THEN /\ Trim(fixedCode) # "" => CanSend
            /\ code' = fixedCode
            /\ AnalyzeBegin(fixedCode, call.language, FALSE)
            /\ FixFinally
       ELSE /\ toast' = Notice("error", "Failed to apply fixes")
            /\ FixFinally
            /\ UNCHANGED <<code, isAnalyzing, analyzeCalls, nextId>>
  /\ UNCHANGED <<language, analysisResult, history>>

\* handleFix after its await fetch: /api/fix answers the request, res.ok with
\* fixedCode or not; up to the await inside handleAnalyze(fixedCode), or to
\* the end when that sends nothing.
FixContinue(call, ok, fixedCode) ==
  /\ call \in fixCalls
  /\ fixCalls' = fixCalls \ {call}
  /\ IF ok
       THEN /\ Trim(fixedCode) # "" => CanSend
            /\ code' = fixedCode
            /\ AnalyzeBegin(fixedCode, call.language, TRUE)
            /\ IF Trim(fixedCode) = ""
                 THEN FixFinally
                 ELSE UNCHANGED <<isFixing, fixTimeoutRef>>
       ELSE /\ toast' = Notice("error", "Failed to apply fixes")
            /\ FixFinally
            /\ UNCHANGED <<code, isAnalyzing, analyzeCalls, nextId>>
  /\ UNCHANGED <<language, analysisResult, history>>

\* The 1000 ms timer of the finally block fires; its callback is empty.
TimerExpire ==
  /\ fixTimeoutRef = "pending"
  /\ fixTimeoutRef' = "spent"
  /\ UNCHANGED <<code, language, isAnalyzing, isFixing, analysisResult,
                 history, analyzeCalls, fixCalls, nextId, toast>>

-----------------------------------------------------------------------------
(* Specifications *)

Init ==
  /\ code = defaultCode
  /\ language = "auto"
  /\ isAnalyzing = FALSE
  /\ isFixing = FALSE
  /\ analysisResult = Null
  /\ history = <<>>
  /\ fixTimeoutRef = "null"
  /\ analyzeCalls = {}
  /\ fixCalls = {}
  /\ nextId = 1
  /\ toast = Notice("none", "")

Next ==
  \/ \E c \in EditCodes : HandleCodeChange(c)
  \/ \E l \in SelectLanguages : SetLanguage(l)
  \/ HandleReset
  \/ \E i \in 1..HistoryCap : LoadHistory(i)
  \/ HandleAnalyze
  \/ \E call \in analyzeCalls, ok \in BOOLEAN, l \in ResponseLanguages :
       AnalyzeContinue(call, ok, l)
  \/ HandleFix
  \/ \E call \in fixCalls, ok \in BOOLEAN, c \in FixedCodes :
       FixContinue(call, ok, c)
  \/ TimerExpire

\* The page with its editor, buttons, requests and timer.
Spec == Init /\ [][Next]_vars

NextDetect ==
  \/ \E c \in DetectCodes : HandleCodeChange(c)
  \/ \E l \in Languages : SetLanguage(l)
  \/ HandleReset

\* The editor alone: texts pasted, languages selected, the reset button.
SpecDetect == Init /\ [][NextDetect]_vars

-----------------------------------------------------------------------------
(* Properties *)

\* Requests a step sends.
NewAnalyzeCalls == analyzeCalls' \ analyzeCalls
NewFixCalls == fixCalls' \ fixCalls

\* A step in which handleFix resumes with a successful /api/fix response.
FixApplied ==
  /\ fixCalls' # fixCalls
  /\ fixCalls' \subseteq fixCalls
  /\ toast'.text # "Failed to apply fixes"

\* A step in which handleAnalyze or handleFix, invoked by a click, shows
\* its notice about missing code.
EmptyCodeNotice ==
  /\ toast' # toast
  /\ toast'.kind = "error"
  /\ toast'.text \in {"Please paste or type some code before analyzing.",
                      "Add some code first."}
  /\ fixCalls' = fixCalls

\* C1: at most one /api/fix request is in flight at any time, and while a
\* fix is in progress (isFixing) no step sends another /api/fix request.
C1_SingleFixInFlight ==
  [][ /\ Cardinality(fixCalls') <= 1
      /\ isFixing => NewFixCalls = {} ]_vars

\* C1 witness: a fix is in flight and in progress while the user has clicked
\* Analyze Code after it, so that clicks and responses interleave with it.
C1_Witness ==
  /\ isFixing
  /\ \E f \in fixCalls : \E a \in analyzeCalls : ~a.fromFix /\ a.id > f.id

\* C2: while an analysis is in progress and a previous result exists, the
\* results column shows that previous result.
C2_PreviousResultVisible ==
  (isAnalyzing /\ analysisResult # Null) => ResultsColumn = "results"

\* C3: while the delay timer armed by handleFix's finally block is pending,
\* no step sends an /api/fix request.
C3_NoFixWhileTimerPending ==
  [][ fixTimeoutRef = "pending" => NewFixCalls = {} ]_vars

\* C4 as stated: every successful /api/fix response is followed at once by an
\* /api/analyze request carrying the new editor code, with isFixing kept.
C4_FixAlwaysReanalyzed ==
  [][ FixApplied =>
        /\ \E a \in NewAnalyzeCalls : a.fromFix /\ a.code = code'
        /\ isFixing' ]_vars

\* C4 as amended: a successful /api/fix response whose fixedCode is not blank
\* is followed at once by an /api/analyze request carrying the trimmed
\* fixedCode, and isFixing stays true while that analysis is in flight; a
\* blank fixedCode sends no request and isFixing returns to false at once.
C4_FixReanalyzedUnlessBlank ==
  [][ /\ FixApplied =>
           IF Trim(code') # ""
             THEN /\ \E a \in NewAnalyzeCalls :
                        a.fromFix /\ a.code = Trim(code')
                  /\ isFixing' /\ isAnalyzing'
             ELSE /\ NewAnalyzeCalls = {}
                  /\ ~isFixing'
      /\ \A a \in analyzeCalls' : a.fromFix => isFixing' ]_vars

\* C4 witness: the follow-up analysis of a padded fixedCode is in flight
\* with the trimmed text, the editor holds the fixedCode, the fix goes on.
C4_Witness ==
  /\ isFixing
  /\ code = "x = 2\n"
  /\ \E a \in analyzeCalls : a.fromFix /\ a.code = "x = 2"

\* C5: every request sent carries the trimmed, non-empty source (the editor
\* code, or the fixedCode just put into the editor), and a click that ends
\* in the notice about missing code sends nothing and changes nothing else.
C5_NoEmptyRequest ==
  [][ /\ \A c \in NewAnalyzeCalls \cup NewFixCalls :
           /\ c.code # ""
           /\ c.code = Trim(IF c.fromFix THEN code' ELSE code)
      /\ (Trim(code) = "" /\ fixCalls' = fixCalls) =>
           NewAnalyzeCalls \cup NewFixCalls = {}
      /\ EmptyCodeNotice =>
           /\ Trim(code) = ""
           /\ UNCHANGED <<code, language, isAnalyzing, isFixing,
                          analysisResult, history, analyzeCalls,
                          fixCalls>> ]_vars

\* C5 witness: AI Debug was clicked on whitespace-only code, and nothing
\* is in flight.
C5_Witness ==
  /\ code = "  \n"
  /\ toast = Notice("error", "Add some code first.")
  /\ analyzeCalls = {} /\ fixCalls = {}
  /\ ~isFixing /\ ~isAnalyzing

\* C6: a step that changes the editor code changes the language only when the
\* language was "auto" and the new code is not blank; so with another language
\* selected no edit changes it.
C6_EditKeepsLanguage ==
  [][ (code' # code /\ language' # language) =>
        (language = "auto" /\ Trim(code') # "") ]_vars

\* C6 witness: Python text was typed with java selected (no notice was ever
\* shown, so the selection came first), and java stays selected.
C6_Witness ==
  /\ language = "java"
  /\ code = "def f(): pass\n"
  /\ DetectLanguage(code) = "python"
  /\ toast = Notice("none", "")

\* C7: with "auto" selected, each example of the default text, pasted on its
\* own, selects the language it is labelled with.
C7_ExamplesDetected ==
  [][ (language = "auto" /\ code' # code) =>
        /\ code' = JavaScriptExample => language' = "javascript"
        /\ code' = PythonExample => language' = "python"
        /\ code' = JavaExample => language' = "java"
        /\ code' = CppExample => language' = "cpp"
        /\ code' = CExample => language' = "c"
        /\ code' = TypeScriptExample => language' = "typescript" ]_vars

\* C7 witness: the C example was pasted and detected.
C7_Witness ==
  /\ code = CExample
  /\ language = "c"
  /\ toast = Notice("info", "Auto-detected: C")

====
